---- MODULE Spec2Model ----
(***************************************************************************)
(* Model of the 'process-csv' Cloud Run Job (src/unnamed/part_000): the    *)
(* batched classification pipeline.  One process run is main() plus the    *)
(* top-level main().catch handler; the Firestore store (definitions, job   *)
(* records, row documents) outlives the runs.                              *)
(***************************************************************************)
EXTENDS Integers, Sequences, FiniteSets, TLC

(***************************************************************************)
(* Bounds of the model.  BATCH_SIZE is the program's constant (50 in the   *)
(* source) scaled down so that the state space stays finite and small; all *)
(* definitions below are written for an arbitrary batch size.              *)
(***************************************************************************)
BATCH_SIZE == 2

MaxRows == 3

MaxRuns == 2

MaxCallers == 3

MaxCalls == 4

MaxEdits == 2

MaxManages == 2

(***************************************************************************)
(* JavaScript values, as far as the pipeline looks at them.  A value is a  *)
(* record [t, v]: t the type tag, v the payload (a string for "str" and    *)
(* "arr", hundredths for "num").  "arr" is a one-element array [v] holding *)
(* the string v; "inf" and "nan" are the numbers Infinity and NaN.         *)
(***************************************************************************)
Undef == [t |-> "undef", v |-> ""]

Null == [t |-> "null", v |-> ""]

Str(s) == [t |-> "str", v |-> s]

Arr(s) == [t |-> "arr", v |-> s]

Num(n) == [t |-> "num", v |-> n]

Bool(b) == [t |-> "bool", v |-> b]

Obj == [t |-> "obj", v |-> ""]

Inf == [t |-> "inf", v |-> ""]

NaN == [t |-> "nan", v |-> ""]

\* ToBoolean: the truthiness that `a && b`, `a || b` and `if (a)` test.
Truthy(x) ==
    CASE x.t = "undef" -> FALSE
      [] x.t = "null" -> FALSE
      [] x.t = "nan" -> FALSE
      [] x.t = "str" -> x.v # ""
      [] x.t = "num" -> x.v # 0
      [] x.t = "bool" -> x.v = "true"
      [] OTHER -> TRUE

\* a || b
Or(a, b) == IF Truthy(a) THEN a ELSE b

\* a === b
StrictEq(a, b) == a.t = b.t /\ a.t \notin {"nan", "obj", "arr"} /\ a.v = b.v

\* ToPropertyKey: the string under which obj[x] looks x up.  An array is
\* joined, so [s] becomes s.
ToPropertyKey(x) ==
    CASE x.t = "str" -> x.v
      [] x.t = "arr" -> x.v
      [] x.t = "undef" -> "undefined"
      [] x.t = "null" -> "null"
      [] x.t = "bool" -> x.v
      [] x.t = "obj" -> "[object Object]"
      [] x.t = "inf" -> "Infinity"
      [] x.t = "nan" -> "NaN"
      [] OTHER -> "<number>"  \* a number's decimal form: never a pool name here

\* The numeric strings of the model and their values in hundredths.
NumericStrings == [s \in {"0.9", "1", ""} |-> CASE s = "0.9" -> 90 [] s = "1" -> 100 [] OTHER -> 0]

\* Number(x)
ToNumber(x) ==
    CASE x.t = "num" -> x
      [] x.t = "inf" -> x
      [] x.t = "null" -> Num(0)
      [] x.t = "bool" -> IF x.v = "true" THEN Num(100) ELSE Num(0)
      [] x.t = "str" -> IF x.v \in DOMAIN NumericStrings THEN Num(NumericStrings[x.v]) ELSE NaN
      [] OTHER -> NaN

(***************************************************************************)
(* The taxonomy document: pool name -> {definition, sub_pools}.            *)
(***************************************************************************)
SubPool(n) == [name |-> Str(n), definition |-> "def of " \o n]

Taxonomy1 ==
    [p \in {"IT", "HR"} |->
        IF p = "IT"
        THEN [definition |-> "information technology",
              sub_pools |-> <<SubPool("Laptops"), SubPool("Cloud")>>]
        ELSE [definition |-> "human resources",
              sub_pools |-> <<SubPool("Payroll")>>]]

Taxonomies == {Taxonomy1}

\* Properties every object inherits from Object.prototype.
ObjectPrototypeKeys == {"constructor", "toString", "hasOwnProperty", "__proto__"}

\* structuredDefs[key]: "own" (a pool), "inherited" (a truthy value without
\* sub_pools) or "undefined".
Lookup(defs, key) ==
    IF key \in DOMAIN defs THEN "own"
    ELSE IF key \in ObjectPrototypeKeys THEN "inherited"
    ELSE "undefined"

(***************************************************************************)
(* The source file: K rows, row i (0-based) carrying the field map         *)
(* RowData(i).  The CSV stream yields them in file order.                  *)
(***************************************************************************)
RowData(i) == <<"fields of row", i>>

\* batch.push({ index: rowIndex, data: row })
Row(i) == [index |-> i, data |-> RowData(i)]

(***************************************************************************)
(* The oracle's answer.  A response is what generateContent and JSON.parse *)
(* leave in aiResponse: kind "error" (the call rejects), "unparseable"     *)
(* (JSON.parse throws), "null" (the text is the JSON null), "scalar" (a    *)
(* JSON number, string, boolean or array) or "object" with its entries.    *)
(* An entry is the value under one key: k = "undef" (no such key), "null", *)
(* "scalar", or "obj" with the four fields.                                *)
(***************************************************************************)
Entry(k, pool, sub, conf, reason) ==
    [k |-> k, cost_pool |-> pool, cost_sub_pool |-> sub, confidence |-> conf, reasoning |-> reason]

NoEntry == Entry("undef", Undef, Undef, Undef, Undef)

\* createBatchPrompt's correlation key: `transaction_${row.index}`
TransactionKey(index) == <<"transaction", index>>

Response(kind, entries) == [kind |-> kind, entries |-> entries]

\* aiResponse[`transaction_${row.index}`] after the try/catch of processBatch:
\* a failed call or parse leaves {}, a scalar has no such property.
ResultFor(resp, index) ==
    IF resp.kind = "object" /\ TransactionKey(index) \in DOMAIN resp.entries
    THEN resp.entries[TransactionKey(index)]
    ELSE NoEntry

\* result.f for a field f of the entry: only an object has own fields.
Field(result, f) == IF result.k = "obj" THEN result[f] ELSE Undef

FallbackClassification ==
    [cost_pool |-> Str("Unclassified"),
     cost_sub_pool |-> Str("Unclassified"),
     confidence |-> Num(0),
     reasoning |-> Str("AI response was missing, invalid, or could not be parsed.")]

\* structuredDefs[result.cost_pool].sub_pools.some(sp => sp.name === result.cost_sub_pool)
IsValidSubpool(defs, pool, sub) ==
    \E n \in 1..Len(defs[ToPropertyKey(pool)].sub_pools) :
        StrictEq(defs[ToPropertyKey(pool)].sub_pools[n].name, sub)

\* Lines 98-117: the classification of one row, or the TypeError that
\* `.sub_pools.some` raises when the looked-up value is an inherited property.
ClassifyThrows(result, defs) ==
    /\ result.k \in {"obj", "scalar"}
    /\ Truthy(Field(result, "cost_pool"))
    /\ Lookup(defs, ToPropertyKey(Field(result, "cost_pool"))) = "inherited"

Classify(result, defs) ==
    IF /\ result.k \in {"obj", "scalar"}
       /\ Truthy(Field(result, "cost_pool"))
       /\ Lookup(defs, ToPropertyKey(Field(result, "cost_pool"))) = "own"
       /\ IsValidSubpool(defs, Field(result, "cost_pool"), Field(result, "cost_sub_pool"))
    THEN [cost_pool |-> Field(result, "cost_pool"),
          cost_sub_pool |-> Field(result, "cost_sub_pool"),
          confidence |-> Or(Field(result, "confidence"), Num(0)),
          reasoning |-> Or(Field(result, "reasoning"), Str("No reasoning provided."))]
    ELSE FallbackClassification

\* Lines 120-125: the document handed to bulkWriter.set.  The document has
\* no manually_edited field.
RowDocument(row, classification) ==
    [original_data |-> row.data,
     cost_pool |-> classification.cost_pool,
     cost_sub_pool |-> classification.cost_sub_pool,
     confidence |-> Or(ToNumber(classification.confidence), Num(0)),
     reasoning |-> classification.reasoning,
     row_index |-> row.index,
     manually_edited |-> "absent"]

\* Lines 95-126: the loop over the batch.  The result is the sequence of
\* documents set before the loop ended or threw, and whether it threw.
RECURSIVE ProcessRows(_, _, _)
ProcessRows(batch, resp, defs) ==
    IF batch = <<>> THEN [docs |-> <<>>, thrown |-> FALSE]
    ELSE IF resp.kind = "null" \/ ClassifyThrows(ResultFor(resp, Head(batch).index), defs)
    THEN [docs |-> <<>>, thrown |-> TRUE]
    ELSE LET rest == ProcessRows(Tail(batch), resp, defs)
         IN  [docs |-> <<RowDocument(Head(batch), Classify(ResultFor(resp, Head(batch).index), defs))>>
                        \o rest.docs,
              thrown |-> rest.thrown]

(***************************************************************************)
(* Source paths (process.argv[3], already split at '/').  <<>> stands for  *)
(* a missing argument.                                                     *)
(***************************************************************************)
PathJob42 == <<"uploads", "acme", "job42", "data.csv">>

PathShort == <<"uploads", "acme", "data.csv">>

PathOther == <<"other", "acme", "job42", "data.csv">>

Paths == {PathJob42, PathShort, PathOther, <<>>}

\* function-uploadFile, line 91: the path uploadFile stores an upload under.
UploadPath(tenantId, pipelineId, jobId, originalFilename) ==
    <<"uploads", tenantId, pipelineId, jobId, originalFilename>>

PathPipeline == UploadPath("acme", "pipe1", "job42", "data.csv")

\* The two accepted forms of the path of one upload.
UploadPaths == {PathJob42, PathPipeline}

\* A path check that asks for the pipeline segment too: 5 segments.
ValidPathFiveSegments(pathParts) == ~(Len(pathParts) < 5 \/ pathParts[1] # "uploads")

\* A path check that forgets the first segment.
ValidPathAnyPrefix(pathParts) == ~(Len(pathParts) < 4)

\* Line 144: pathParts.length < 4 || pathParts[0] !== 'uploads' rejects.
ValidPath(pathParts) == ~(Len(pathParts) < 4 \/ pathParts[1] # "uploads")

\* Lines 148-150 (and 208-209 of the handler): pathParts[1], [2], [3].
TenantId(pathParts) == pathParts[2]

JobId(pathParts) == pathParts[3]

OriginalFilename(pathParts) == pathParts[4]

JobKey(pathParts) == <<TenantId(pathParts), JobId(pathParts)>>

JobKeys == {JobKey(p) : p \in {q \in Paths \cup UploadPaths : Len(q) >= 4}}

(***************************************************************************)
(* Job records.  status is [s, n]: "none" (no record), "reading",          *)
(* "processing_batch" with its number n, "completed", "failed".            *)
(***************************************************************************)
Status(s, n) == [s |-> s, n |-> n]

NoJob ==
    [exists |-> FALSE, id |-> "", originalFilename |-> "", status |-> Status("none", 0),
     totalRows |-> -1, error |-> ""]

\* Lines 158-163: jobDocRef.set({id, originalFilename, createdAt, status: 'reading'},
\* {merge: true}): creates the record or overwrites these fields, keeping the others.
\* createdAt, a server timestamp, is not part of the record here.
SetReading(job, pathParts) ==
    [job EXCEPT !.exists = TRUE, !.id = JobId(pathParts),
                !.originalFilename = OriginalFilename(pathParts),
                !.status = Status("reading", 0)]

\* Line 179: the status written before a full batch.
BatchStatus(rowIndex) == Status("processing_batch", rowIndex \div BATCH_SIZE)

\* row document reference: tenants/{tenantId}/jobs/{jobId}/rows/{String(row.index)}
Digits == <<"0", "1", "2", "3", "4", "5", "6", "7", "8", "9">>

RowDocId(index) == Digits[index + 1]

RowRef(pathParts, index) ==
    [tenant |-> TenantId(pathParts), job |-> JobId(pathParts), id |-> RowDocId(index)]

\* A write that adds a document instead of replacing the one at ref.
AddRowDoc(docs, ref, doc) == docs \cup {[ref |-> ref, doc |-> doc]}

\* DocumentReference.set without merge: the document at ref is replaced.
SetRowDoc(docs, ref, doc) == {d \in docs : d.ref # ref} \cup {[ref |-> ref, doc |-> doc]}

\* A processBatch that hands nothing to the writer.
EnqueueNothing(pathParts, docs) == <<>>

\* bulkWriter.set(docRef, doc) for each document of a processed batch.
Enqueue(pathParts, docs) ==
    [n \in 1..Len(docs) |-> [ref |-> RowRef(pathParts, docs[n].row_index), doc |-> docs[n], st |-> "pending"]]

(***************************************************************************)
(* The oracle answers the pipeline runs are explored with.                 *)
(***************************************************************************)
ValidIT == Entry("obj", Str("IT"), Str("Laptops"), Num(90), Str("hardware"))

RunEntries == {NoEntry, ValidIT}

BatchKeys(batch) == {TransactionKey(batch[n].index) : n \in 1..Len(batch)}

RunResponses(batch) ==
    {Response("error", <<>>), Response("unparseable", <<>>), Response("null", <<>>)}
    \cup {Response("object", f) : f \in [BatchKeys(batch) -> RunEntries]}

(***************************************************************************)
(* State.                                                                  *)
(***************************************************************************)
VARIABLES
    defsDoc,          \* store: definitions/hierarchical, [exists, data]
    jobDocs,          \* store: job records by (tenantId, jobId)
    rowDocs,          \* store: row documents, a set of [ref, doc]
    source,           \* blob store: the number of rows of the source file
    pc,               \* where the process is
    argv,             \* process.argv[3], split
    definitionsCache, \* the module-level cache, [loaded, data]
    defsReq,          \* the definitions read of Promise.all
    setReq,           \* the status 'reading' write of Promise.all
    batch,            \* main's batch
    rowIndex,         \* main's rowIndex
    bulkWriter,       \* the BulkWriter's operations, in the order of the set calls
    err,              \* the message of the error main threw
    runs,             \* how many times the job was invoked
    fetches,          \* history: definitions reads issued by this process
    statusLog,        \* history: statuses this run wrote to the job record
    batchLog,         \* history: the batches this run passed to processBatch
    oracleLog,        \* history: the oracle's answer to each of them
    callers,          \* function process: each event handler's call of getStructuredDefinitions
    calls,            \* history: calls of getStructuredDefinitions made so far
    auditTrail,       \* store: the audit_trail records of the rows, in the order written
    request,          \* history: the last updateRowClassification request and its status
    edits,            \* history: updateRowClassification requests served so far
    users,            \* identity store: the user records by uid
    manageOps,        \* manageUser: requests that passed their checks and await their write
    userReply,        \* history: the last manageUser request answered and its answer
    manages,          \* history: manageUser requests received so far
    fnPc,             \* processCSV: where the event handler is
    fnPath,           \* processCSV: cloudEvent.data.name, split
    records,          \* processCSV: what the handler read into its records array
    tasks             \* processCSV: the async callbacks of records.map, one per row

store == <<defsDoc, jobDocs, rowDocs, source>>

process == <<pc, argv, definitionsCache, defsReq, setReq, batch, rowIndex, bulkWriter, err>>

history == <<runs, fetches, statusLog, batchLog, oracleLog>>

\* The state outside the batched job: the per-row cloud function's process.
cache == <<callers, calls>>

\* The state of updateRowClassification, next to the row documents.
editor == <<auditTrail, request, edits>>

\* The state of manageUser, next to the identity store.
directory == <<users, manageOps, userReply, manages>>

\* The state of one event handler of processCSV, the per-row cloud function.
handler == <<fnPc, fnPath, records, tasks>>

side == <<cache, editor, directory, handler>>

vars == <<store, process, history, side>>

\* The user records of the identity store: customClaims {tenantId, role}, the
\* disabled flag, and whether the record exists.  Ann is the admin of acme,
\* bob an uploader of acme, zed a viewer of globex; ghost is no user.
User(tenantId, role) == [exists |-> TRUE, tenantId |-> tenantId, role |-> role, disabled |-> FALSE]

NoUser == [exists |-> FALSE, tenantId |-> "", role |-> "", disabled |-> FALSE]

Uids == {"ann", "bob", "zed", "ghost"}

InitialUsers ==
    [u \in Uids |-> CASE u = "ann" -> User("acme", "admin")
                      [] u = "bob" -> User("acme", "uploader")
                      [] u = "zed" -> User("globex", "viewer")
                      [] OTHER -> NoUser]

\* No manageUser request was answered yet.
NoReply == [token |-> "", body |-> "", status |-> 0, listed |-> {}]

\* No updateRowClassification request was served yet.
NoRequest == [token |-> "", body |-> "", committed |-> FALSE, status |-> 0]

\* The event handlers one process of the cloud function runs side by side.
Callers == 1..MaxCallers

NoDefinitions == [exists |-> FALSE, data |-> [p \in {} |-> 0]]

Init ==
    /\ defsDoc \in {NoDefinitions} \cup {[exists |-> TRUE, data |-> t] : t \in Taxonomies}
    /\ jobDocs = [k \in JobKeys |-> NoJob]
    /\ rowDocs = {}
    /\ source \in 0..MaxRows
    /\ pc = "idle"
    /\ argv = <<>>
    /\ definitionsCache = NoDefinitions
    /\ defsReq = "none"
    /\ setReq = "none"
    /\ batch = <<>>
    /\ rowIndex = 0
    /\ bulkWriter = <<>>
    /\ err = ""
    /\ runs = 0
    /\ fetches = 0
    /\ statusLog = <<>>
    /\ batchLog = <<>>
    /\ oracleLog = <<>>
    /\ callers = [c \in Callers |-> "idle"]
    /\ calls = 0
    /\ auditTrail = <<>>
    /\ request = NoRequest
    /\ edits = 0
    /\ users = InitialUsers
    /\ manageOps = {}
    /\ userReply = NoReply
    /\ manages = 0
    /\ fnPc = "idle"
    /\ fnPath = <<>>
    /\ records = <<>>
    /\ tasks = <<>>

(***************************************************************************)
(* main().catch, lines 200-217.  Its synchronous part decides from the     *)
(* argument alone whether to write status 'failed': only when the path has *)
(* at least 4 segments.  Otherwise the process exits at once.              *)
(***************************************************************************)
HandlerPc(pathParts) == IF Len(pathParts) >= 4 THEN "failing" ELSE "exited"

Throw(message) ==
    /\ err' = message
    /\ pc' = HandlerPc(argv)

\* Line 210: update({status: 'failed', error}) changes an existing record and
\* is rejected for a missing one.
FailedWritten ==
    /\ pc = "failing"
    /\ pc' = "exited"
    /\ IF jobDocs[JobKey(argv)].exists
       THEN /\ jobDocs' = [jobDocs EXCEPT ![JobKey(argv)].status = Status("failed", 0),
                                          ![JobKey(argv)].error = err]
            /\ statusLog' = Append(statusLog, Status("failed", 0))
       ELSE UNCHANGED <<jobDocs, statusLog>>
    /\ UNCHANGED <<defsDoc, rowDocs, source, argv, definitionsCache, defsReq, setReq, batch,
                   rowIndex, bulkWriter, err, runs, fetches, batchLog, oracleLog>>
    /\ UNCHANGED side

(***************************************************************************)
(* A process start: main up to its first await, lines 130-164.  A missing  *)
(* argument or a rejected path throws before anything is requested; else   *)
(* the definitions read and the status 'reading' write are both issued.    *)
(***************************************************************************)
Invoke(pathParts) ==
    /\ pc \in {"idle", "done", "exited"}
    /\ runs < MaxRuns
    /\ runs' = runs + 1
    /\ argv' = pathParts
    /\ definitionsCache' = NoDefinitions
    /\ batch' = <<>>
    /\ rowIndex' = 0
    /\ bulkWriter' = <<>>
    /\ statusLog' = <<>>
    /\ batchLog' = <<>>
    /\ oracleLog' = <<>>
    /\ IF pathParts = <<>>
       THEN /\ err' = "Missing GCS bucket or file name arguments."
            /\ pc' = "exited"
            /\ defsReq' = "none" /\ setReq' = "none" /\ fetches' = 0
       ELSE IF ~ValidPath(pathParts)
       THEN /\ err' = "Invalid file path structure"
            /\ pc' = HandlerPc(pathParts)
            /\ defsReq' = "none" /\ setReq' = "none" /\ fetches' = 0
       ELSE /\ err' = ""
            /\ pc' = "init"
            /\ defsReq' = "inflight" /\ setReq' = "inflight" /\ fetches' = 1
    /\ UNCHANGED store
    /\ UNCHANGED side

\* getStructuredDefinitions, lines 40-47, when the document exists.
DefinitionsFetched ==
    /\ pc = "init" /\ defsReq = "inflight"
    /\ defsDoc.exists
    /\ definitionsCache' = [exists |-> TRUE, data |-> defsDoc.data]
    /\ defsReq' = "resolved"
    /\ pc' = IF setReq = "landed" THEN "streaming" ELSE "init"
    /\ UNCHANGED <<store, argv, setReq, batch, rowIndex, bulkWriter, err, history>>
    /\ UNCHANGED side

\* getStructuredDefinitions, lines 42-44: the document is missing.  Promise.all
\* rejects at once, whether or not the status write has landed.
DefinitionsMissing ==
    /\ pc = "init" /\ defsReq = "inflight"
    /\ ~defsDoc.exists
    /\ defsReq' = "rejected"
    /\ Throw("Definitions document not found.")
    /\ UNCHANGED <<store, argv, definitionsCache, setReq, batch, rowIndex, bulkWriter, history>>
    /\ UNCHANGED side

\* The write of lines 158-163 reaches the store.  It was issued before the
\* handler could run, so it may land while or after the handler's own write.
ReadingWritten ==
    /\ setReq = "inflight"
    /\ setReq' = "landed"
    /\ jobDocs' = [jobDocs EXCEPT ![JobKey(argv)] = SetReading(@, argv)]
    /\ statusLog' = Append(statusLog, Status("reading", 0))
    /\ pc' = IF pc = "init" /\ defsReq = "resolved" THEN "streaming" ELSE pc
    /\ UNCHANGED <<defsDoc, rowDocs, source, argv, definitionsCache, defsReq, batch, rowIndex,
                   bulkWriter, err, runs, fetches, batchLog, oracleLog>>
    /\ UNCHANGED side

(***************************************************************************)
(* The streaming loop, lines 174-187.                                      *)
(***************************************************************************)
\* A loop that collects every row before anything is processed.
ReadRowMaterialize ==
    /\ pc = "streaming"
    /\ rowIndex < source
    /\ batch' = Append(batch, Row(rowIndex))
    /\ rowIndex' = rowIndex + 1
    /\ UNCHANGED <<store, pc, argv, definitionsCache, defsReq, setReq, bulkWriter, err, history>>
    /\ UNCHANGED side

\* One iteration up to its await: lines 175-179.
ReadRow ==
    /\ pc = "streaming"
    /\ rowIndex < source
    /\ batch' = Append(batch, Row(rowIndex))
    /\ rowIndex' = rowIndex + 1
    /\ pc' = IF Len(batch') >= BATCH_SIZE THEN "updating" ELSE "streaming"
    /\ UNCHANGED <<store, argv, definitionsCache, defsReq, setReq, bulkWriter, err, history>>
    /\ UNCHANGED side

\* The CSV parser's stream raises an error: the for await of line 174 throws.
SourceError ==
    /\ pc = "streaming"
    /\ rowIndex < source
    /\ Throw("source read failed")
    /\ UNCHANGED <<store, argv, definitionsCache, defsReq, setReq, batch, rowIndex, bulkWriter,
                   history>>
    /\ UNCHANGED side

\* The blob read stream raises an error.  Line 168 connects it to the parser
\* with pipe(), which forwards data and end but no error, and nothing listens
\* for 'error' on the read stream: the event is an uncaught exception, which
\* ends the process at once, whatever main is waiting for, and main().catch
\* does not run.
ReadStreamError ==
    /\ pc \in {"streaming", "updating", "classifying"}
    /\ rowIndex < source
    /\ err' = "blob read failed"
    /\ pc' = "exited"
    /\ UNCHANGED <<store, argv, definitionsCache, defsReq, setReq, batch, rowIndex, bulkWriter,
                   history>>
    /\ UNCHANGED side

\* processBatch up to its await, lines 82-87: the prompt is built and the
\* oracle is called.
CallOracle ==
    /\ batchLog' = Append(batchLog, batch)

\* Line 179 lands, and line 180 calls processBatch.
StatusWritten ==
    /\ pc = "updating"
    /\ jobDocs[JobKey(argv)].exists
    /\ jobDocs' = [jobDocs EXCEPT ![JobKey(argv)].status = BatchStatus(rowIndex)]
    /\ statusLog' = Append(statusLog, BatchStatus(rowIndex))
    /\ CallOracle
    /\ pc' = "classifying"
    /\ UNCHANGED <<defsDoc, rowDocs, source, argv, definitionsCache, defsReq, setReq, batch,
                   rowIndex, bulkWriter, err, runs, fetches, oracleLog>>
    /\ UNCHANGED side

\* An end of stream that forgets the remainder.
EndOfStreamDropsRemainder ==
    /\ pc = "streaming"
    /\ rowIndex = source
    /\ pc' = "closing"
    /\ UNCHANGED <<store, argv, definitionsCache, defsReq, setReq, batch, rowIndex, bulkWriter,
                   err, history>>
    /\ UNCHANGED side

\* The stream ends: lines 185-190.  A remainder is processed without a
\* status write; with no remainder the writer is closed.
EndOfStream ==
    /\ pc = "streaming"
    /\ rowIndex = source
    /\ IF Len(batch) > 0
       THEN CallOracle /\ pc' = "classifyingLast"
       ELSE UNCHANGED batchLog /\ pc' = "closing"
    /\ UNCHANGED <<store, argv, definitionsCache, defsReq, setReq, batch, rowIndex, bulkWriter,
                   err, runs, fetches, statusLog, oracleLog>>
    /\ UNCHANGED side

\* processBatch without the try/catch of lines 86-93: a failed call or an
\* unparseable text propagates out of processBatch.
OracleReturnsUncaught(resp) ==
    /\ pc \in {"classifying", "classifyingLast"}
    /\ oracleLog' = Append(oracleLog, resp)
    /\ LET done == IF resp.kind \in {"error", "unparseable"}
                   THEN [docs |-> <<>>, thrown |-> TRUE]
                   ELSE ProcessRows(batch, resp, definitionsCache.data)
       IN  /\ bulkWriter' = bulkWriter \o Enqueue(argv, done.docs)
           /\ IF done.thrown
              THEN Throw("TypeError") /\ UNCHANGED batch
              ELSE /\ batch' = <<>>
                   /\ pc' = IF pc = "classifying" THEN "streaming" ELSE "closing"
                   /\ UNCHANGED err
    /\ UNCHANGED <<store, argv, definitionsCache, defsReq, setReq, rowIndex, runs, fetches,
                   statusLog, batchLog>>
    /\ UNCHANGED side

\* A processBatch that calls the oracle again when the call has failed, once.
OracleReturnsRetrying(resp) ==
    /\ pc \in {"classifying", "classifyingLast"}
    /\ oracleLog' = Append(oracleLog, resp)
    /\ IF resp.kind = "error" /\ (oracleLog = <<>> \/ oracleLog[Len(oracleLog)].kind # "error")
       THEN /\ CallOracle
            /\ UNCHANGED <<pc, batch, bulkWriter, err>>
       ELSE /\ UNCHANGED batchLog
            /\ LET done == ProcessRows(batch, resp, definitionsCache.data)
               IN  /\ bulkWriter' = bulkWriter \o Enqueue(argv, done.docs)
                   /\ IF done.thrown
                      THEN Throw("TypeError") /\ UNCHANGED batch
                      ELSE /\ batch' = <<>>
                           /\ pc' = IF pc = "classifying" THEN "streaming" ELSE "closing"
                           /\ UNCHANGED err
    /\ UNCHANGED <<store, argv, definitionsCache, defsReq, setReq, rowIndex, runs, fetches,
                   statusLog>>
    /\ UNCHANGED side

\* The oracle call returns or fails: lines 87-126, then line 181 or 189-190.
OracleReturns(resp) ==
    /\ pc \in {"classifying", "classifyingLast"}
    /\ oracleLog' = Append(oracleLog, resp)
    /\ LET done == ProcessRows(batch, resp, definitionsCache.data)
       IN  /\ bulkWriter' = bulkWriter \o Enqueue(argv, done.docs)
           /\ IF done.thrown
              THEN Throw("TypeError") /\ UNCHANGED batch
              ELSE /\ batch' = <<>>
                   /\ pc' = IF pc = "classifying" THEN "streaming" ELSE "closing"
                   /\ UNCHANGED err
    /\ UNCHANGED <<store, argv, definitionsCache, defsReq, setReq, rowIndex, runs, fetches,
                   statusLog, batchLog>>
    /\ UNCHANGED side

(***************************************************************************)
(* The BulkWriter.  An enqueued write is sent in the background, in the     *)
(* order of the set calls, and is acknowledged or fails; the promise set() *)
(* returns is not looked at by processBatch, and close() resolves once no  *)
(* write is pending: it never rejects.                                     *)
(***************************************************************************)
Pending == {n \in 1..Len(bulkWriter) : bulkWriter[n].st = "pending"}

\* The write the BulkWriter resolves next.
NextWrite(n) == n \in Pending /\ \A m \in Pending : n <= m

CommitWrite(n) ==
    /\ pc # "exited"
    /\ NextWrite(n)
    /\ bulkWriter' = [bulkWriter EXCEPT ![n].st = "acked"]
    /\ rowDocs' = SetRowDoc(rowDocs, bulkWriter[n].ref, bulkWriter[n].doc)
    /\ UNCHANGED <<defsDoc, jobDocs, source, pc, argv, definitionsCache, defsReq, setReq, batch,
                   rowIndex, err, history>>
    /\ UNCHANGED side

FailWrite(n) ==
    /\ pc # "exited"
    /\ NextWrite(n)
    /\ bulkWriter' = [bulkWriter EXCEPT ![n].st = "failed"]
    /\ UNCHANGED <<store, pc, argv, definitionsCache, defsReq, setReq, batch, rowIndex, err,
                   history>>
    /\ UNCHANGED side

\* Line 190 resolves and line 192 issues the final update.
CloseResolves ==
    /\ pc = "closing"
    /\ Pending = {}
    /\ pc' = "completing"
    /\ UNCHANGED <<store, argv, definitionsCache, defsReq, setReq, batch, rowIndex, bulkWriter,
                   err, history>>
    /\ UNCHANGED side

\* Lines 192-195 land.
CompletedWritten ==
    /\ pc = "completing"
    /\ jobDocs[JobKey(argv)].exists
    /\ jobDocs' = [jobDocs EXCEPT ![JobKey(argv)].status = Status("completed", 0),
                                  ![JobKey(argv)].totalRows = rowIndex]
    /\ statusLog' = Append(statusLog, Status("completed", 0))
    /\ pc' = "done"
    /\ UNCHANGED <<defsDoc, rowDocs, source, argv, definitionsCache, defsReq, setReq, batch,
                   rowIndex, bulkWriter, err, runs, fetches, batchLog, oracleLog>>
    /\ UNCHANGED side

Next ==
    \/ \E p \in Paths : Invoke(p)
    \/ DefinitionsFetched
    \/ DefinitionsMissing
    \/ ReadingWritten
    \/ ReadRow
    \/ SourceError
    \/ ReadStreamError
    \/ StatusWritten
    \/ EndOfStream
    \/ \E resp \in RunResponses(batch) : OracleReturns(resp)
    \/ \E n \in 1..Len(bulkWriter) : CommitWrite(n)
    \/ \E n \in 1..Len(bulkWriter) : FailWrite(n)
    \/ CloseResolves
    \/ CompletedWritten
    \/ FailedWritten

Spec == Init /\ [][Next]_vars

(***************************************************************************)
(* The runs in which the process is not killed and every call it has       *)
(* issued (store read, store write, oracle call, the next row of the       *)
(* stream) is answered in the end.  A failure of the source, a failed row  *)
(* write and a new invocation may happen but need not.                     *)
(***************************************************************************)
Progress ==
    \/ DefinitionsFetched
    \/ DefinitionsMissing
    \/ ReadingWritten
    \/ ReadRow
    \/ StatusWritten
    \/ EndOfStream
    \/ \E resp \in RunResponses(batch) : OracleReturns(resp)
    \/ \E n \in 1..Len(bulkWriter) : CommitWrite(n)
    \/ CloseResolves
    \/ CompletedWritten
    \/ FailedWritten

FairSpec == Spec /\ WF_vars(Progress)

(***************************************************************************)
(* One call of processBatch, explored over a wide range of oracle answers. *)
(* The run starts where main has called processBatch for the first batch   *)
(* of a source of at most BATCH_SIZE rows and is waiting for the oracle:   *)
(* the state the pipeline reaches after Invoke, DefinitionsFetched,        *)
(* ReadingWritten, the ReadRow steps and StatusWritten or EndOfStream.     *)
(***************************************************************************)
PoolVariants ==
    {Undef, Str(""), Str("IT"), Str("HR"), Str("Bogus"), Str("Unclassified"),
     Str("constructor"), Arr("IT"), Null}

SubPoolVariants == {Undef, Str("Laptops"), Str("Payroll"), Str("Unclassified"), Arr("Laptops")}

ConfidenceVariants ==
    {Undef, Null, Num(0), Num(90), Num(150), Num(-10), Inf, Str("0.9"), Str("high"),
     Bool("true"), Bool("false"), Obj}

ReasoningVariants == {Undef, Str(""), Str("hardware")}

\* Entries that differ from a valid answer in one field, and the non-objects.
BatchEntries ==
    {NoEntry, Entry("null", Undef, Undef, Undef, Undef), Entry("scalar", Undef, Undef, Undef, Undef)}
    \cup {Entry("obj", p, Str("Laptops"), Num(90), Str("hardware")) : p \in PoolVariants}
    \cup {Entry("obj", Str("IT"), sp, Num(90), Str("hardware")) : sp \in SubPoolVariants}
    \cup {Entry("obj", Str("HR"), sp, Num(90), Str("hardware")) : sp \in SubPoolVariants}
    \cup {Entry("obj", Str("IT"), Str("Laptops"), c, Str("hardware")) : c \in ConfidenceVariants}
    \cup {Entry("obj", Str("IT"), Str("Laptops"), Num(90), r) : r \in ReasoningVariants}

BatchResponses(rows) ==
    {Response(k, <<>>) : k \in {"error", "unparseable", "null", "scalar"}}
    \cup {Response("object", f) : f \in [BatchKeys(rows) -> BatchEntries]}

FirstRows(k) == [i \in 1..k |-> Row(i - 1)]

BatchInit ==
    /\ defsDoc \in {[exists |-> TRUE, data |-> t] : t \in Taxonomies}
    /\ source \in 1..BATCH_SIZE
    /\ rowDocs = {}
    /\ argv = PathJob42
    /\ definitionsCache = defsDoc
    /\ defsReq = "resolved"
    /\ setReq = "landed"
    /\ batch = FirstRows(source)
    /\ rowIndex = source
    /\ bulkWriter = <<>>
    /\ err = ""
    /\ runs = 1
    /\ fetches = 1
    /\ batchLog = <<batch>>
    /\ oracleLog = <<>>
    /\ callers = [c \in Callers |-> "idle"]
    /\ calls = 0
    /\ auditTrail = <<>>
    /\ request = NoRequest
    /\ edits = 0
    /\ users = InitialUsers
    /\ manageOps = {}
    /\ userReply = NoReply
    /\ manages = 0
    /\ fnPc = "idle"
    /\ fnPath = <<>>
    /\ records = <<>>
    /\ tasks = <<>>
    /\ IF source = BATCH_SIZE
       THEN /\ pc = "classifying"
            /\ statusLog = <<Status("reading", 0), BatchStatus(rowIndex)>>
            /\ jobDocs = [k \in JobKeys |->
                            IF k = JobKey(argv)
                            THEN [SetReading(NoJob, argv) EXCEPT !.status = BatchStatus(rowIndex)]
                            ELSE NoJob]
       ELSE /\ pc = "classifyingLast"
            /\ statusLog = <<Status("reading", 0)>>
            /\ jobDocs = [k \in JobKeys |->
                            IF k = JobKey(argv) THEN SetReading(NoJob, argv) ELSE NoJob]

BatchNext ==
    \/ \E resp \in BatchResponses(batch) : OracleReturns(resp)
    \/ EndOfStream
    \/ \E n \in 1..Len(bulkWriter) : CommitWrite(n)
    \/ \E n \in 1..Len(bulkWriter) : FailWrite(n)
    \/ CloseResolves
    \/ CompletedWritten
    \/ FailedWritten

BatchSpec == BatchInit /\ [][BatchNext]_vars

(***************************************************************************)
(* The pipeline run on the paths of an upload: the path uploadFile writes, *)
(* with the pipeline segment, and the same upload without that segment.    *)
(***************************************************************************)
UploadNext ==
    \/ \E p \in UploadPaths : Invoke(p)
    \/ DefinitionsFetched
    \/ DefinitionsMissing
    \/ ReadingWritten
    \/ ReadRow
    \/ SourceError
    \/ ReadStreamError
    \/ StatusWritten
    \/ EndOfStream
    \/ \E resp \in RunResponses(batch) : OracleReturns(resp)
    \/ \E n \in 1..Len(bulkWriter) : CommitWrite(n)
    \/ \E n \in 1..Len(bulkWriter) : FailWrite(n)
    \/ CloseResolves
    \/ CompletedWritten
    \/ FailedWritten

UploadSpec == Init /\ [][UploadNext]_vars

(***************************************************************************)
(* The per-row cloud function, function-processCSV: one process handles    *)
(* events side by side, and each handler starts by calling                 *)
(* getStructuredDefinitions, lines 35-53, the same code as in the batched  *)
(* job.  The call tests the cache, and with an empty cache it issues the   *)
(* store read and awaits it; the cache is filled when the read returns.    *)
(***************************************************************************)
\* Lines 38-46, up to the await: `if (definitionsCache) return definitionsCache`,
\* otherwise docRef.get() is issued.
CallGetStructuredDefinitions(c) ==
    /\ callers[c] # "fetching"
    /\ calls < MaxCalls
    /\ calls' = calls + 1
    /\ IF definitionsCache.exists
       THEN /\ callers' = [callers EXCEPT ![c] = "returned"]
            /\ UNCHANGED fetches
       ELSE /\ callers' = [callers EXCEPT ![c] = "fetching"]
            /\ fetches' = fetches + 1
    /\ UNCHANGED <<store, process, runs, statusLog, batchLog, oracleLog, editor, directory, handler>>

\* Lines 46-52: the read returns; a missing document throws, else the cache
\* is filled and returned.
GetReturns(c) ==
    /\ callers[c] = "fetching"
    /\ IF defsDoc.exists
       THEN /\ definitionsCache' = [exists |-> TRUE, data |-> defsDoc.data]
            /\ callers' = [callers EXCEPT ![c] = "returned"]
       ELSE /\ callers' = [callers EXCEPT ![c] = "threw"]
            /\ UNCHANGED definitionsCache
    /\ UNCHANGED <<store, pc, argv, defsReq, setReq, batch, rowIndex, bulkWriter, err, history,
                   calls, editor, directory, handler>>

CacheInit == Init /\ source = 0

CacheNext ==
    \/ \E c \in Callers : CallGetStructuredDefinitions(c)
    \/ \E c \in Callers : GetReturns(c)

CacheSpec == CacheInit /\ [][CacheNext]_vars

(***************************************************************************)
(* updateRowClassification, the HTTP function of a manual edit.  A request *)
(* is the decoded ID token (or none, or one that does not verify) and the  *)
(* JSON body.  A missing string field is "", a missing value is Undef.     *)
(***************************************************************************)
NoToken == [valid |-> FALSE, sent |-> FALSE, tenantId |-> "", role |-> "", email |-> ""]

BadToken == [valid |-> FALSE, sent |-> TRUE, tenantId |-> "", role |-> "", email |-> ""]

Token(tenantId, role, email) ==
    [valid |-> TRUE, sent |-> TRUE, tenantId |-> tenantId, role |-> role, email |-> email]

Tokens ==
    {NoToken, BadToken,
     Token("acme", "admin", "ann@acme"), Token("acme", "uploader", "bob@acme"),
     Token("acme", "viewer", "eve@acme"), Token("globex", "admin", "zed@globex"),
     Token("", "admin", "ann@acme")}

Body(jobId, rowId, newCostPool, newCostSubPool) ==
    [jobId |-> jobId, rowId |-> rowId, newCostPool |-> newCostPool,
     newCostSubPool |-> newCostSubPool]

\* Complete bodies for rows 0 and 1 of job42, and bodies that lack one field.
Bodies ==
    {Body("job42", r, p, sp) : r \in {"0", "1"}, p \in {Str("IT"), Str("HR"), Null},
                               sp \in {Str("Laptops"), Str("Payroll")}}
    \cup {Body("", "0", Str("HR"), Str("Payroll")), Body("job42", "", Str("HR"), Str("Payroll")),
          Body("job42", "0", Undef, Str("Payroll")), Body("job42", "0", Str("HR"), Undef)}

\* Lines 28-43: the status the checks of the token end the request with, or 0.
AuthStatus(token) ==
    IF ~token.sent \/ ~token.valid THEN 401
    ELSE IF token.tenantId = "" \/ token.role \notin {"admin", "uploader"} THEN 403
    ELSE 0

\* Lines 47-50: a required field is missing.
MissingFields(body) ==
    \/ body.jobId = ""
    \/ body.rowId = ""
    \/ body.newCostPool = Undef
    \/ body.newCostSubPool = Undef

\* Line 52: rowDocRef.
EditRowRef(token, body) == [tenant |-> token.tenantId, job |-> body.jobId, id |-> body.rowId]

\* The value the body carries for a field of the row.
NewValue(body, field) ==
    IF field = "cost_pool" THEN body.newCostPool ELSE body.newCostSubPool

\* An edit that takes every field of the request for a change.
EditUpdatesAlways(oldData, body) == <<"cost_pool", "cost_sub_pool">>

\* Lines 63-84: the fields whose stored value !== the new one, in the order
\* of the two tests.
EditUpdates(oldData, body) ==
    (IF ~StrictEq(oldData.cost_pool, body.newCostPool) THEN <<"cost_pool">> ELSE <<>>)
    \o (IF ~StrictEq(oldData.cost_sub_pool, body.newCostSubPool)
        THEN <<"cost_sub_pool">> ELSE <<>>)

\* Lines 88-89: transaction.update(rowDocRef, updates) on the stored data.
ApplyUpdates(oldData, body, fields) ==
    [f \in DOMAIN oldData |->
        IF \E n \in 1..Len(fields) : fields[n] = f THEN NewValue(body, f)
        ELSE IF f = "manually_edited" THEN "true"
        ELSE oldData[f]]

\* Lines 92-98: one audit_trail record per audit event, under the row.  The
\* server timestamp is left out.
AuditRecords(ref, email, oldData, body, fields) ==
    [n \in 1..Len(fields) |->
        [ref |-> ref, changedBy |-> email, field |-> fields[n],
         oldValue |-> oldData[fields[n]], newValue |-> NewValue(body, fields[n])]]

\* The whole handler, lines 17-108.  The transaction of lines 56-100 takes
\* effect as one step or, when the store does not commit it, not at all.
UpdateRowClassification(token, body, commits) ==
    /\ edits < MaxEdits
    /\ edits' = edits + 1
    /\ LET ref == EditRowRef(token, body)
           found == {d \in rowDocs : d.ref = ref}
           attempted == AuthStatus(token) = 0 /\ ~MissingFields(body)
           served(status) == request' = [token |-> token, body |-> body,
                                         committed |-> attempted /\ commits,
                                         status |-> status]
       IN  IF AuthStatus(token) # 0
           THEN served(AuthStatus(token)) /\ UNCHANGED <<rowDocs, auditTrail>>
           ELSE IF MissingFields(body)
           THEN served(400) /\ UNCHANGED <<rowDocs, auditTrail>>
           ELSE IF found = {} \/ ~commits
           THEN served(500) /\ UNCHANGED <<rowDocs, auditTrail>>
           ELSE LET row == CHOOSE d \in found : TRUE
                    fields == EditUpdates(row.doc, body)
                IN  /\ served(200)
                    /\ IF Len(fields) > 0
                       THEN /\ rowDocs' = SetRowDoc(rowDocs, ref,
                                                    ApplyUpdates(row.doc, body, fields))
                            /\ auditTrail' = auditTrail \o
                                  AuditRecords(ref, token.email, row.doc, body, fields)
                       ELSE UNCHANGED <<rowDocs, auditTrail>>
    /\ UNCHANGED <<defsDoc, jobDocs, source, process, history, cache, directory, handler>>

\* The rows of job42 as a run of the pipeline left them: row 0 classified,
\* row 1, when the source had two rows, with the fallback.
PipelineRows(n) ==
    {[ref |-> RowRef(PathJob42, i),
      doc |-> RowDocument(Row(i), IF i = 0 THEN Classify(ValidIT, Taxonomy1)
                                  ELSE FallbackClassification)] : i \in 0..(n - 1)}

EditInit ==
    /\ defsDoc = [exists |-> TRUE, data |-> Taxonomy1]
    /\ source \in 1..2
    /\ rowDocs = PipelineRows(source)
    /\ jobDocs = [k \in JobKeys |->
                    IF k = JobKey(PathJob42)
                    THEN [SetReading(NoJob, PathJob42) EXCEPT !.status = Status("completed", 0),
                                                              !.totalRows = source]
                    ELSE NoJob]
    /\ pc = "idle"
    /\ argv = <<>>
    /\ definitionsCache = NoDefinitions
    /\ defsReq = "none"
    /\ setReq = "none"
    /\ batch = <<>>
    /\ rowIndex = 0
    /\ bulkWriter = <<>>
    /\ err = ""
    /\ runs = 0
    /\ fetches = 0
    /\ statusLog = <<>>
    /\ batchLog = <<>>
    /\ oracleLog = <<>>
    /\ callers = [c \in Callers |-> "idle"]
    /\ calls = 0
    /\ auditTrail = <<>>
    /\ request = NoRequest
    /\ edits = 0
    /\ users = InitialUsers
    /\ manageOps = {}
    /\ userReply = NoReply
    /\ manages = 0
    /\ fnPc = "idle"
    /\ fnPath = <<>>
    /\ records = <<>>
    /\ tasks = <<>>

EditNext ==
    \E token \in Tokens, body \in Bodies, commits \in BOOLEAN :
        UpdateRowClassification(token, body, commits)

EditSpec == EditInit /\ [][EditNext]_vars

(***************************************************************************)
(* Manual edits next to pipeline runs.  The job (acme, job42) has been     *)
(* processed once; an admin of acme edits row 0 while the pipeline is      *)
(* invoked again for the same source.                                      *)
(***************************************************************************)
RerunTokens == {Token("acme", "admin", "ann@acme")}

RerunBodies ==
    {Body("job42", "0", Str("HR"), Str("Payroll")), Body("job42", "0", Str("IT"), Str("Cloud"))}

RerunNext ==
    \/ \E token \in RerunTokens, body \in RerunBodies, commits \in BOOLEAN :
          UpdateRowClassification(token, body, commits)
    \/ Invoke(PathJob42)
    \/ DefinitionsFetched
    \/ ReadingWritten
    \/ ReadRow
    \/ SourceError
    \/ ReadStreamError
    \/ StatusWritten
    \/ EndOfStream
    \/ \E resp \in RunResponses(batch) : OracleReturns(resp)
    \/ \E n \in 1..Len(bulkWriter) : CommitWrite(n)
    \/ \E n \in 1..Len(bulkWriter) : FailWrite(n)
    \/ CloseResolves
    \/ CompletedWritten
    \/ FailedWritten

RerunSpec == EditInit /\ [][RerunNext]_vars

(***************************************************************************)
(* manageUser, the HTTP function of a tenant admin.  A request is the      *)
(* decoded ID token and the body {action, uid, newRole, disabled}; a       *)
(* missing uid is "", disabled is "true", "false" or "" (not a boolean).   *)
(* The handler reads the target with getUser, compares tenants, and then   *)
(* awaits its write: other requests may be served in between.              *)
(***************************************************************************)
ManageTokens ==
    {NoToken, BadToken, Token("acme", "admin", "ann@acme"),
     Token("acme", "uploader", "bob@acme"), Token("globex", "admin", "zed@globex")}

ManageBody(action, uid, newRole, disabled) ==
    [action |-> action, uid |-> uid, newRole |-> newRole, disabled |-> disabled]

ManageBodies ==
    {ManageBody("listUsers", "", "", ""), ManageBody("purge", "bob", "", "")}
    \cup {ManageBody("updateRole", u, r, "") : u \in Uids, r \in {"viewer"}}
    \cup {ManageBody("updateRole", "bob", "admin", ""), ManageBody("updateRole", "", "viewer", "")}
    \cup {ManageBody("disableUser", u, "", "true") : u \in Uids}
    \cup {ManageBody("disableUser", "bob", "", "false"), ManageBody("disableUser", "bob", "", "")}
    \cup {ManageBody("deleteUser", u, "", "") : u \in Uids \cup {""}}

\* Lines 30-45: the status the checks of the token end the request with, or 0.
ManageAuthStatus(token) ==
    IF ~token.sent \/ ~token.valid THEN 401
    ELSE IF token.role # "admin" \/ token.tenantId = "" THEN 403
    ELSE 0

\* Lines 69, 81, 93: the arguments of an action are not acceptable.
InvalidArguments(body) ==
    CASE body.action = "updateRole" ->
            body.uid = "" \/ body.newRole = "" \/ body.newRole \notin {"uploader", "viewer"}
      [] body.action = "disableUser" -> body.uid = "" \/ body.disabled \notin {"true", "false"}
      [] body.action = "deleteUser" -> body.uid = ""
      [] OTHER -> TRUE

\* A check that lets an admin manage the users of every tenant.
AnyTenant(user, adminTenantId) == TRUE

\* Lines 73, 85, 97: user.customClaims?.tenantId === adminTenantId.
SameTenant(user, adminTenantId) == user.tenantId = adminTenantId

\* Lines 54-65: the users listUsers returns, filtered by the caller's tenant.
TenantUsers(adminTenantId) == {u \in Uids : users[u].exists /\ SameTenant(users[u], adminTenantId)}

Reply(token, body, status, listed) ==
    [token |-> token, body |-> body, status |-> status, listed |-> listed]

\* Lines 19-100, up to the write an action awaits: the checks of the token
\* and the arguments, listUsers, or getUser and the comparison of tenants.
ManageUserReceive(token, body) ==
    /\ manages < MaxManages
    /\ manages' = manages + 1
    /\ LET answer(status, listed) ==
               /\ userReply' = Reply(token, body, status, listed)
               /\ UNCHANGED manageOps
       IN  IF ManageAuthStatus(token) # 0 THEN answer(ManageAuthStatus(token), {})
           ELSE IF body.action = "listUsers" THEN answer(200, TenantUsers(token.tenantId))
           ELSE IF InvalidArguments(body) THEN answer(400, {})
           ELSE IF ~users[body.uid].exists THEN answer(500, {})
           ELSE IF ~SameTenant(users[body.uid], token.tenantId) THEN answer(403, {})
           ELSE /\ manageOps' = manageOps \cup
                      {[n |-> manages', token |-> token, body |-> body, user |-> users[body.uid]]}
                /\ UNCHANGED userReply
    /\ UNCHANGED <<store, process, history, cache, editor, users, handler>>

\* Lines 76, 88, 100: the write of a request that passed its checks, and its
\* answer.  A write to a user deleted meanwhile throws: lines 107-110.
ManageUserWrite(op) ==
    /\ op \in manageOps
    /\ manageOps' = manageOps \ {op}
    /\ IF ~users[op.body.uid].exists
       THEN /\ userReply' = Reply(op.token, op.body, 500, {})
            /\ UNCHANGED users
       ELSE /\ userReply' = Reply(op.token, op.body, 200, {})
            /\ users' = [users EXCEPT ![op.body.uid] =
                  CASE op.body.action = "updateRole" ->
                          [@ EXCEPT !.tenantId = op.user.tenantId, !.role = op.body.newRole]
                    [] op.body.action = "disableUser" ->
                          [@ EXCEPT !.disabled = (op.body.disabled = "true")]
                    [] OTHER -> NoUser]
    /\ UNCHANGED <<store, process, history, cache, editor, manages, handler>>

UserNext ==
    \/ \E token \in ManageTokens, body \in ManageBodies : ManageUserReceive(token, body)
    \/ \E op \in manageOps : ManageUserWrite(op)

\* No pipeline run is in progress: no source, the taxonomy loaded.
UserInit ==
    /\ Init
    /\ source = 0
    /\ defsDoc.exists

UserSpec == UserInit /\ [][UserNext]_vars

(***************************************************************************)
(* processCSV, the per-row cloud function (function-processCSV/index.js).  *)
(* One event is handled: the handler loads the taxonomy, checks the path,  *)
(* writes status 'reading', reads every record of the source into an       *)
(* array, writes the row count and status 'processing', starts one async   *)
(* callback per record with records.map, awaits them with Promise.all and  *)
(* writes status 'completed'.  The whole body is inside a try whose catch  *)
(* only logs.                                                              *)
(***************************************************************************)
EventPaths == {PathJob42, PathShort}

\* Line 96: pathParts.length < 4 || pathParts[0] !== 'uploads' returns.
ValidEventPath(pathParts) == ~(Len(pathParts) < 4 \/ pathParts[1] # "uploads")

\* Lines 107-112: jobDocRef.set({id, originalFilename, createdAt, status: 'reading'})
\* without merge: the record is replaced, whatever it held.
SetReadingReplacing(job, pathParts) ==
    [NoJob EXCEPT !.exists = TRUE, !.id = JobId(pathParts),
                  !.originalFilename = OriginalFilename(pathParts),
                  !.status = Status("reading", 0)]

\* Lines 126-129: jobDocRef.update({totalRows: records.length, status: 'processing'}).
SetProcessing(job, n) == [job EXCEPT !.totalRows = n, !.status = Status("processing", 0)]

\* What one generateContent call comes to: kind "error" (the call rejects),
\* "unparseable" (JSON.parse throws) or "json" with the parsed suggestion, an
\* entry of kind "null", "scalar" or "obj".
Answer(kind, suggestion) == [kind |-> kind, suggestion |-> suggestion]

NoAnswer == Answer("none", NoEntry)

\* Lines 136-141: the classification a row keeps when the try block does not
\* replace it.
PerRowFallback ==
    [cost_pool |-> Str("Unclassified"),
     cost_sub_pool |-> Str("Unclassified"),
     confidence |-> Num(0),
     reasoning |-> Str("AI response could not be parsed or validated.")]

\* Line 147 and 151: the suggestion passes the validation.  A null suggestion
\* and a pool that names an inherited property throw a TypeError inside the
\* try, which the catch of line 160 swallows: they do not pass.
SuggestionAccepted(answer, defs) ==
    /\ answer.kind = "json"
    /\ answer.suggestion.k \in {"obj", "scalar"}
    /\ Truthy(Field(answer.suggestion, "cost_pool"))
    /\ Lookup(defs, ToPropertyKey(Field(answer.suggestion, "cost_pool"))) = "own"
    /\ IsValidSubpool(defs, Field(answer.suggestion, "cost_pool"),
                      Field(answer.suggestion, "cost_sub_pool"))

\* Lines 136-162: the classification of one row from the oracle's answer.
ClassifySuggestion(answer, defs) ==
    IF SuggestionAccepted(answer, defs)
    THEN [cost_pool |-> Field(answer.suggestion, "cost_pool"),
          cost_sub_pool |-> Field(answer.suggestion, "cost_sub_pool"),
          confidence |-> Or(Field(answer.suggestion, "confidence"), Num(0)),
          reasoning |-> Or(Field(answer.suggestion, "reasoning"), Str("No reasoning provided."))]
    ELSE PerRowFallback

\* A row document that stores the confidence as the classification has it.
PerRowDocumentRawConfidence(row, index, classification) ==
    [original_data |-> row,
     cost_pool |-> classification.cost_pool,
     cost_sub_pool |-> classification.cost_sub_pool,
     confidence |-> classification.confidence,
     reasoning |-> classification.reasoning,
     row_index |-> index,
     manually_edited |-> "absent"]

\* Lines 166-171: the document of rowDocRef.set.  It has no manually_edited
\* field.
PerRowDocument(row, index, classification) ==
    [original_data |-> row,
     cost_pool |-> classification.cost_pool,
     cost_sub_pool |-> classification.cost_sub_pool,
     confidence |-> Or(ToNumber(classification.confidence), Num(0)),
     reasoning |-> classification.reasoning,
     row_index |-> index,
     manually_edited |-> "absent"]

\* A callback of records.map: st is "waiting" (not started), "calling" (its
\* generateContent call is outstanding), "writing" (its rowDocRef.set is
\* outstanding), "written" (resolved) or "rejected".
Task(st, answer, doc) == [st |-> st, answer |-> answer, doc |-> doc]

NoDocument == PerRowDocument(<<>>, -1, PerRowFallback)

\* A map that starts the first callback only.
StartTasksOneAtATime(recs) ==
    [n \in 1..Len(recs) |-> Task(IF n = 1 THEN "calling" ELSE "waiting", NoAnswer, NoDocument)]

\* Lines 132-134: records.map runs every callback up to its first await, the
\* generateContent call, before it returns.
StartTasks(recs) == [n \in 1..Len(recs) |-> Task("calling", NoAnswer, NoDocument)]

\* The trigger delivers the event; the handler calls getStructuredDefinitions
\* (line 82), which issues the read of the taxonomy document.
FnInvoke(pathParts) ==
    /\ fnPc = "idle"
    /\ fnPath' = pathParts
    /\ fnPc' = "fetching"
    /\ UNCHANGED <<store, process, history, cache, editor, directory, records, tasks>>

\* Lines 46-52 and 82-112: the read returns.  A missing document throws and
\* the catch of line 179 logs; an invalid path returns; otherwise the write of
\* status 'reading' is issued.
FnDefinitions ==
    /\ fnPc = "fetching"
    /\ IF ~defsDoc.exists
       THEN fnPc' = "caught" /\ UNCHANGED definitionsCache
       ELSE /\ definitionsCache' = [exists |-> TRUE, data |-> defsDoc.data]
            /\ fnPc' = IF ValidEventPath(fnPath) THEN "setting" ELSE "returned"
    /\ UNCHANGED <<store, pc, argv, defsReq, setReq, batch, rowIndex, bulkWriter, err, history,
                   cache, editor, directory, fnPath, records, tasks>>

\* Lines 107-122: the write of status 'reading' lands and the handler starts
\* to read the source.
FnReadingWritten ==
    /\ fnPc = "setting"
    /\ jobDocs' = [jobDocs EXCEPT ![JobKey(fnPath)] = SetReadingReplacing(@, fnPath)]
    /\ fnPc' = "reading"
    /\ UNCHANGED <<defsDoc, rowDocs, source, process, history, cache, editor, directory,
                   fnPath, records, tasks>>

\* Lines 116-129: the stream ends with every record pushed; the update with
\* the row count and status 'processing' is issued.
FnRecordsRead ==
    /\ fnPc = "reading"
    /\ records' = [n \in 1..source |-> RowData(n - 1)]
    /\ fnPc' = "updating"
    /\ UNCHANGED <<store, process, history, cache, editor, directory, fnPath, tasks>>

\* Line 120: the CSV parser emits 'error'; the promise rejects and the catch
\* of line 179 logs.
FnSourceError ==
    /\ fnPc = "reading"
    /\ fnPc' = "caught"
    /\ UNCHANGED <<store, process, history, cache, editor, directory, fnPath, records, tasks>>

\* Lines 117-118: the read stream of the blob emits 'error'.  pipe does not
\* forward it and the stream has no 'error' listener: the exception is
\* uncaught and the process dies.
FnReadStreamError ==
    /\ fnPc = "reading"
    /\ fnPc' = "crashed"
    /\ UNCHANGED <<store, process, history, cache, editor, directory, fnPath, records, tasks>>

\* Lines 126-134: the update lands, and records.map starts the callbacks;
\* the handler then awaits Promise.all.
FnProcessingWritten ==
    /\ fnPc = "updating"
    /\ jobDocs' = [jobDocs EXCEPT ![JobKey(fnPath)] = SetProcessing(@, Len(records))]
    /\ tasks' = StartTasks(records)
    /\ fnPc' = "classifying"
    /\ UNCHANGED <<defsDoc, rowDocs, source, process, history, cache, editor, directory,
                   fnPath, records>>

\* Lines 134-171: the generateContent call of row n returns.  A rejected call
\* rejects the callback, the await being outside the try; otherwise the row
\* is classified and its rowDocRef.set is issued.
FnOracleReturns(n, answer) ==
    /\ tasks[n].st = "calling"
    /\ tasks' = [tasks EXCEPT ![n] =
                    IF answer.kind = "error"
                    THEN Task("rejected", answer, NoDocument)
                    ELSE Task("writing", answer,
                              PerRowDocument(records[n], n - 1,
                                             ClassifySuggestion(answer, definitionsCache.data)))]
    /\ UNCHANGED <<store, process, history, cache, editor, directory, fnPc, fnPath, records>>

\* Line 166: the row write lands.
FnRowWritten(n) ==
    /\ tasks[n].st = "writing"
    /\ rowDocs' = SetRowDoc(rowDocs, RowRef(fnPath, n - 1), tasks[n].doc)
    /\ tasks' = [tasks EXCEPT ![n].st = "written"]
    /\ UNCHANGED <<defsDoc, jobDocs, source, process, history, cache, editor, directory,
                   fnPc, fnPath, records>>

\* Line 166: the store rejects the row write, and with it the callback.
FnRowWriteFails(n) ==
    /\ tasks[n].st = "writing"
    /\ tasks' = [tasks EXCEPT ![n].st = "rejected"]
    /\ UNCHANGED <<store, process, history, cache, editor, directory, fnPc, fnPath, records>>

\* Lines 173-175: every callback resolved, Promise.all resolves and the
\* update to status 'completed' is issued.
FnAllResolved ==
    /\ fnPc = "classifying"
    /\ \A n \in 1..Len(tasks) : tasks[n].st = "written"
    /\ fnPc' = "completing"
    /\ UNCHANGED <<store, process, history, cache, editor, directory, fnPath, records, tasks>>

\* Lines 173 and 179-181: a callback rejected, Promise.all rejects and the
\* catch logs.  The other callbacks go on.
FnRejected ==
    /\ fnPc = "classifying"
    /\ \E n \in 1..Len(tasks) : tasks[n].st = "rejected"
    /\ fnPc' = "caught"
    /\ UNCHANGED <<store, process, history, cache, editor, directory, fnPath, records, tasks>>

\* Line 175: the update lands and the handler returns.
FnCompletedWritten ==
    /\ fnPc = "completing"
    /\ jobDocs' = [jobDocs EXCEPT ![JobKey(fnPath)].status = Status("completed", 0)]
    /\ fnPc' = "returned"
    /\ UNCHANGED <<defsDoc, rowDocs, source, process, history, cache, editor, directory,
                   fnPath, records, tasks>>

\* The answers the handler's runs are explored with.
EventAnswers ==
    {Answer("error", NoEntry), Answer("unparseable", NoEntry), Answer("json", ValidIT)}

EventNext ==
    \/ \E pathParts \in EventPaths : FnInvoke(pathParts)
    \/ FnDefinitions
    \/ FnReadingWritten
    \/ FnRecordsRead
    \/ FnSourceError
    \/ FnReadStreamError
    \/ FnProcessingWritten
    \/ \E n \in 1..Len(tasks), answer \in EventAnswers : FnOracleReturns(n, answer)
    \/ \E n \in 1..Len(tasks) : FnRowWritten(n)
    \/ \E n \in 1..Len(tasks) : FnRowWriteFails(n)
    \/ FnAllResolved
    \/ FnRejected
    \/ FnCompletedWritten

EventSpec == Init /\ [][EventNext]_vars

\* Every awaited operation settles, one way or the other: the store and the
\* oracle answer or fail, the stream ends or errors.
EventFairSpec == EventSpec /\ WF_vars(EventNext)

(***************************************************************************)
(* One row of the per-row function, explored over a wide range of          *)
(* suggestions.  The run starts where the handler has written status       *)
(* 'processing' for a source of one row and awaits the row's callback: the *)
(* state reached by FnInvoke, FnDefinitions, FnReadingWritten,             *)
(* FnRecordsRead and FnProcessingWritten.                                  *)
(***************************************************************************)
SuggestionAnswers ==
    {Answer("error", NoEntry), Answer("unparseable", NoEntry)}
    \cup {Answer("json", e) : e \in BatchEntries \ {NoEntry}}

SuggestionInit ==
    /\ defsDoc \in {[exists |-> TRUE, data |-> t] : t \in Taxonomies}
    /\ source = 1
    /\ rowDocs = {}
    /\ jobDocs = [k \in JobKeys |->
                    IF k = JobKey(PathJob42)
                    THEN SetProcessing(SetReadingReplacing(NoJob, PathJob42), source)
                    ELSE NoJob]
    /\ pc = "idle"
    /\ argv = <<>>
    /\ definitionsCache = defsDoc
    /\ defsReq = "none"
    /\ setReq = "none"
    /\ batch = <<>>
    /\ rowIndex = 0
    /\ bulkWriter = <<>>
    /\ err = ""
    /\ runs = 0
    /\ fetches = 0
    /\ statusLog = <<>>
    /\ batchLog = <<>>
    /\ oracleLog = <<>>
    /\ callers = [c \in Callers |-> "idle"]
    /\ calls = 0
    /\ auditTrail = <<>>
    /\ request = NoRequest
    /\ edits = 0
    /\ users = InitialUsers
    /\ manageOps = {}
    /\ userReply = NoReply
    /\ manages = 0
    /\ fnPc = "classifying"
    /\ fnPath = PathJob42
    /\ records = [n \in 1..source |-> RowData(n - 1)]
    /\ tasks = StartTasks(records)

SuggestionNext ==
    \/ \E n \in 1..Len(tasks), answer \in SuggestionAnswers : FnOracleReturns(n, answer)
    \/ \E n \in 1..Len(tasks) : FnRowWritten(n)
    \/ \E n \in 1..Len(tasks) : FnRowWriteFails(n)
    \/ FnAllResolved
    \/ FnRejected
    \/ FnCompletedWritten

SuggestionSpec == SuggestionInit /\ [][SuggestionNext]_vars

(***************************************************************************)
(* C1.  Taxonomy integrity: every row result processBatch hands to the     *)
(* writer has a cost_pool that is a key of the taxonomy or 'Unclassified'; *)
(* with 'Unclassified' the cost_sub_pool is 'Unclassified' too, otherwise  *)
(* cost_sub_pool names a sub-pool of that pool.                            *)
(***************************************************************************)
InTaxonomy(doc, defs) ==
    /\ doc.cost_pool.t = "str"
    /\ \/ /\ doc.cost_pool.v = "Unclassified"
          /\ doc.cost_sub_pool = Str("Unclassified")
       \/ /\ doc.cost_pool.v # "Unclassified"
          /\ doc.cost_pool.v \in DOMAIN defs
          /\ \E n \in 1..Len(defs[doc.cost_pool.v].sub_pools) :
                defs[doc.cost_pool.v].sub_pools[n].name = doc.cost_sub_pool

C1_TaxonomyIntegrity ==
    \A n \in 1..Len(bulkWriter) : InTaxonomy(bulkWriter[n].doc, definitionsCache.data)

(***************************************************************************)
(* Properties of the pipeline runs (Spec).                                 *)
(***************************************************************************)
\* The job the current run works on, and what the store holds for it.
ThisJob == jobDocs[JobKey(argv)]

RowDocsOf(key) == {d \in rowDocs : <<d.ref.tenant, d.ref.job>> = key}

ExpectedIds == {RowDocId(i) : i \in 0..(source - 1)}

CeilDiv(k, b) == (k + b - 1) \div b

IsFallback(doc) ==
    /\ doc.cost_pool = Str("Unclassified")
    /\ doc.cost_sub_pool = Str("Unclassified")
    /\ doc.confidence = Num(0)

\* The operations of the current run's writer that carry row index i.
WritesOf(i) == {n \in 1..Len(bulkWriter) : bulkWriter[n].doc.row_index = i}

(***************************************************************************)
(* C2.  Row conservation: whenever a job's status is completed, the store  *)
(* holds exactly one row document for each index 0..K-1 of the job, none   *)
(* with another index, and totalRows is K.                                 *)
(***************************************************************************)
C2_RowConservation ==
    \A key \in JobKeys :
        jobDocs[key].status.s = "completed" =>
            /\ {d.ref.id : d \in RowDocsOf(key)} = ExpectedIds
            /\ Cardinality(RowDocsOf(key)) = source
            /\ jobDocs[key].totalRows = source

(***************************************************************************)
(* C3.  Oracle-failure isolation: when the oracle call of a batch fails    *)
(* (the call rejects or its text does not parse), every row of that batch  *)
(* is handed to the writer with the fallback classification; every row of  *)
(* a batch whose call returned a valid answer for it is handed over with   *)
(* that answer; no run fails because of a failed call, a run that is not   *)
(* over can always take a step, and a run that ends normally has written   *)
(* status completed.                                                       *)
(***************************************************************************)
FailedCall(n) == oracleLog[n].kind \in {"error", "unparseable"}

ValidAnswer(entry, defs) ==
    /\ entry.k = "obj"
    /\ entry.cost_pool.t = "str"
    /\ entry.cost_pool.v \in DOMAIN defs
    /\ \E m \in 1..Len(defs[entry.cost_pool.v].sub_pools) :
          defs[entry.cost_pool.v].sub_pools[m].name = entry.cost_sub_pool

C3_OracleFailureIsolation ==
    /\ \A n \in 1..Len(oracleLog) : \A m \in 1..Len(batchLog[n]) :
          LET i == batchLog[n][m].index
              answer == ResultFor(oracleLog[n], i)
          IN  /\ FailedCall(n) =>
                    /\ WritesOf(i) # {}
                    /\ \A w \in WritesOf(i) : IsFallback(bulkWriter[w].doc)
              /\ (oracleLog[n].kind = "object" /\ ValidAnswer(answer, definitionsCache.data)) =>
                    /\ WritesOf(i) # {}
                    /\ \A w \in WritesOf(i) :
                          /\ bulkWriter[w].doc.cost_pool = answer.cost_pool
                          /\ bulkWriter[w].doc.cost_sub_pool = answer.cost_sub_pool
                          /\ ~IsFallback(bulkWriter[w].doc)
    /\ (err # "" /\ oracleLog # <<>>) => \/ ~FailedCall(Len(oracleLog))
                                      \/ err \in {"source read failed", "blob read failed"}
    /\ pc \notin {"idle", "done", "exited"} => ENABLED Next
    /\ pc = "done" => ThisJob.status = Status("completed", 0)

C3_Witness ==
    /\ pc = "done"
    /\ ThisJob.status = Status("completed", 0)
    /\ Len(oracleLog) = 2
    /\ \E n, k \in 1..2 :
          /\ FailedCall(n)
          /\ oracleLog[k].kind = "object"
          /\ \A m \in 1..Len(batchLog[k]) :
                /\ ValidAnswer(ResultFor(oracleLog[k], batchLog[k][m].index), definitionsCache.data)
                /\ \E d \in rowDocs : d.ref.id = RowDocId(batchLog[k][m].index) /\ ~IsFallback(d.doc)
          /\ \A m \in 1..Len(batchLog[n]) :
                \E d \in rowDocs : d.ref.id = RowDocId(batchLog[n][m].index) /\ IsFallback(d.doc)

(***************************************************************************)
(* C4.  Batch partition: the batches main passes to processBatch are the   *)
(* consecutive slices of the stream, BATCH_SIZE rows each except a last    *)
(* one holding the remainder, in stream order; once the loop is over their *)
(* number is ceil(K / BATCH_SIZE), which is 0 for K = 0.                   *)
(***************************************************************************)
ExpectedBatch(n) ==
    LET first == (n - 1) * BATCH_SIZE
        last == IF n * BATCH_SIZE < source THEN n * BATCH_SIZE ELSE source
    IN  [m \in 1..(last - first) |-> Row(first + m - 1)]

C4_BatchPartition ==
    /\ \A n \in 1..Len(batchLog) :
          /\ batchLog[n] = ExpectedBatch(n)
          /\ Len(batchLog[n]) >= 1
          /\ n < Len(batchLog) => Len(batchLog[n]) = BATCH_SIZE
    /\ Len(batchLog) <= CeilDiv(source, BATCH_SIZE)
    /\ pc \in {"closing", "completing", "done"} => Len(batchLog) = CeilDiv(source, BATCH_SIZE)

C4_Witness ==
    /\ pc = "done"
    /\ source = BATCH_SIZE + 1
    /\ Len(batchLog) = 2
    /\ Len(batchLog[1]) = BATCH_SIZE
    /\ Len(batchLog[2]) = 1

(***************************************************************************)
(* C5.  Status before each batch: while the Nth batch is being processed   *)
(* the job's status is processing_batch_N, also for a last batch smaller   *)
(* than the batch size; a successful run has written reading,              *)
(* processing_batch_1 .. processing_batch_ceil(K/B), completed.            *)
(***************************************************************************)
ExpectedStatusLog ==
    <<Status("reading", 0)>>
    \o [n \in 1..CeilDiv(source, BATCH_SIZE) |-> Status("processing_batch", n)]
    \o <<Status("completed", 0)>>

C5_StatusBeforeEachBatch ==
    /\ pc \in {"classifying", "classifyingLast"} =>
          ThisJob.status = Status("processing_batch", Len(batchLog))
    /\ pc = "done" => statusLog = ExpectedStatusLog

(***************************************************************************)
(* C6.  Monotonic status: over any sequence of runs for a job the status   *)
(* only moves forward (reading, processing_batch_1, .., completed, with    *)
(* failed reachable from any of them), and once it is completed or failed  *)
(* it never changes again.                                                 *)
(***************************************************************************)
StatusRank(status) ==
    CASE status.s = "none" -> 0
      [] status.s = "reading" -> 1
      [] status.s = "processing_batch" -> 1 + status.n
      [] OTHER -> MaxRows + 2

C6_StatusMonotonic ==
    [][\A key \in JobKeys :
          /\ jobDocs[key].status.s \in {"completed", "failed"} =>
                jobDocs'[key].status = jobDocs[key].status
          /\ StatusRank(jobDocs[key].status) <= StatusRank(jobDocs'[key].status)]_vars

(***************************************************************************)
(* C7.  Flush barrier: a run has set status completed only if every row    *)
(* write of that run was acknowledged; none is pending and none failed.    *)
(***************************************************************************)
C7_CompletedOnlyAfterFlush ==
    (pc = "done" /\ ThisJob.status.s = "completed") =>
        \A n \in 1..Len(bulkWriter) : bulkWriter[n].st = "acked"

(***************************************************************************)
(* C8.  Idempotent write: the store holds at most one row document per     *)
(* (tenantId, jobId, row_index); after an acknowledged write the document  *)
(* at that key holds the written values, whatever an earlier run left      *)
(* there; and the number of row documents of the job never exceeds the     *)
(* number of rows of the source, however often the pipeline is run.        *)
(***************************************************************************)
C8_IdempotentWrite ==
    /\ \A d, e \in rowDocs : d.ref = e.ref => d = e
    /\ \A n \in 1..Len(bulkWriter) :
          bulkWriter[n].st = "acked" =>
              [ref |-> bulkWriter[n].ref, doc |-> bulkWriter[n].doc] \in rowDocs
    /\ \A key \in JobKeys : Cardinality(RowDocsOf(key)) <= source

\* In a second run, the first write has replaced its document while the
\* document the first run left under the second key is still to be replaced.
C8_Witness ==
    /\ runs = 2
    /\ Len(bulkWriter) >= 2
    /\ bulkWriter[1].st = "acked"
    /\ bulkWriter[2].st = "pending"
    /\ Cardinality(rowDocs) = source
    /\ \E d \in rowDocs : d.ref = bulkWriter[2].ref /\ d.doc # bulkWriter[2].doc
    /\ \E d \in rowDocs : d.ref = bulkWriter[1].ref /\ d.doc = bulkWriter[1].doc /\ ~IsFallback(d.doc)

(***************************************************************************)
(* C9.  The claim as stated: a run with uploads/acme/job42/data.csv reads  *)
(* no row, calls no oracle and leaves the job's status none or failed.     *)
(***************************************************************************)
C9_Job42PathRejected ==
    argv = PathJob42 =>
        /\ rowIndex = 0
        /\ batchLog = <<>>
        /\ ThisJob.status.s \in {"none", "failed"}

(***************************************************************************)
(* C9 as amended.  uploads/acme/job42/data.csv has 4 segments and is       *)
(* accepted: the run is not rejected for its path, issues the definitions  *)
(* read and the status write, and works on job (acme, job42).  The path    *)
(* uploads/acme/data.csv, 3 segments, is rejected: the run ends at once    *)
(* with the invalid-path error, reads no row, calls no oracle and writes   *)
(* no job record.                                                          *)
(***************************************************************************)
C9_FourSegmentsAccepted ==
    /\ argv = PathJob42 =>
          /\ err # "Invalid file path structure"
          /\ setReq # "none"
          /\ fetches = 1
          /\ JobKey(argv) = <<"acme", "job42">>
    /\ argv = PathShort =>
          /\ err = "Invalid file path structure"
          /\ pc = "exited"
          /\ rowIndex = 0
          /\ batchLog = <<>>
          /\ statusLog = <<>>

C9_Witness ==
    /\ runs = 2
    /\ argv = PathShort
    /\ pc = "exited"
    /\ jobDocs[<<"acme", "job42">>].status = Status("completed", 0)
    /\ jobDocs[<<"acme", "job42">>].totalRows = MaxRows

(***************************************************************************)
(* C10.  A path with fewer than 4 segments or with a first segment other   *)
(* than 'uploads' makes main fail at once: no definitions read is issued,  *)
(* the status 'reading' write is not issued, no row is read and no oracle  *)
(* call is made.                                                           *)
(***************************************************************************)
C10_InvalidPathFailsFirst ==
    (runs >= 1 /\ (Len(argv) < 4 \/ argv[1] # "uploads")) =>
        /\ pc \in {"failing", "exited"}
        /\ err # ""
        /\ fetches = 0
        /\ defsReq = "none"
        /\ setReq = "none"
        /\ \A n \in 1..Len(statusLog) : statusLog[n].s # "reading"
        /\ rowIndex = 0
        /\ batch = <<>>
        /\ batchLog = <<>>
        /\ oracleLog = <<>>

C10_Witness ==
    /\ argv = PathOther
    /\ pc = "exited"
    /\ err = "Invalid file path structure"
    /\ fetches = 0

(***************************************************************************)
(* C11.  Taxonomy missing: when no definitions record exists, the run      *)
(* reads no row and makes no oracle call, and once the process has exited  *)
(* and the status 'reading' write has reached the store, the job record    *)
(* carries status failed and the error message, whatever the order in      *)
(* which the definitions read, the status 'reading' write and the          *)
(* handler's status 'failed' write were served.                            *)
(***************************************************************************)
C11_TaxonomyMissingFails ==
    defsReq = "rejected" =>
        /\ rowIndex = 0
        /\ batchLog = <<>>
        /\ oracleLog = <<>>
        /\ (pc = "exited" /\ setReq = "landed") =>
              /\ ThisJob.status = Status("failed", 0)
              /\ ThisJob.error = "Definitions document not found."

(***************************************************************************)
(* C12.  Source failure mid-stream: when the blob read stream or the CSV   *)
(* parser fails after streaming has begun, the run ends with the job       *)
(* status failed and the error message recorded, and every row result the  *)
(* store has acknowledged is still there.                                  *)
(***************************************************************************)
SourceFailures == {"source read failed", "blob read failed"}

C12_SourceFailureMarksFailed ==
    (pc = "exited" /\ err \in SourceFailures) =>
        /\ ThisJob.status = Status("failed", 0)
        /\ ThisJob.error = err
        /\ \A n \in 1..Len(bulkWriter) :
              bulkWriter[n].st = "acked" =>
                 \E d \in rowDocs : d.ref = bulkWriter[n].ref /\ d.doc = bulkWriter[n].doc

(***************************************************************************)
(* C13.  Non-object response: when the oracle's text does not parse, or    *)
(* parses to JSON that is not an object (null, an array, a number, a       *)
(* string), processBatch hands the writer the fallback classification for  *)
(* every row of the batch and no error leaves processBatch.                *)
(***************************************************************************)
NotAnObject(n) == oracleLog[n].kind \in {"unparseable", "null", "scalar"}

C13_NonObjectResponseIsEmpty ==
    \A n \in 1..Len(oracleLog) :
        NotAnObject(n) =>
            /\ err = ""
            /\ \A m \in 1..Len(batchLog[n]) :
                  /\ WritesOf(batchLog[n][m].index) # {}
                  /\ \A w \in WritesOf(batchLog[n][m].index) : IsFallback(bulkWriter[w].doc)

(***************************************************************************)
(* C14.  Unknown pool: a row whose answer names as cost_pool anything but  *)
(* a key of the taxonomy (no value, a string that is no key, a value that  *)
(* is not a string) is handed to the writer with the fallback              *)
(* classification, every other row of the batch that was answered validly  *)
(* keeps its answer, and no error leaves processBatch.                     *)
(***************************************************************************)
PoolIsTaxonomyKey(entry, defs) ==
    entry.k = "obj" /\ entry.cost_pool.t = "str" /\ entry.cost_pool.v \in DOMAIN defs

C14_UnknownPoolFallsBack ==
    \A n \in 1..Len(oracleLog) :
        oracleLog[n].kind = "object" =>
            \A m \in 1..Len(batchLog[n]) :
                LET i == batchLog[n][m].index
                    answer == ResultFor(oracleLog[n], i)
                IN  /\ (answer.k = "obj" /\ ~PoolIsTaxonomyKey(answer, definitionsCache.data)) =>
                          /\ err = ""
                          /\ WritesOf(i) # {}
                          /\ \A w \in WritesOf(i) : IsFallback(bulkWriter[w].doc)
                    /\ ((\E k \in 1..Len(batchLog[n]) :
                            LET other == ResultFor(oracleLog[n], batchLog[n][k].index)
                            IN  other.k = "obj" /\ ~PoolIsTaxonomyKey(other, definitionsCache.data))
                        /\ ValidAnswer(answer, definitionsCache.data)) =>
                          /\ WritesOf(i) # {}
                          /\ \A w \in WritesOf(i) :
                                /\ bulkWriter[w].doc.cost_pool = answer.cost_pool
                                /\ bulkWriter[w].doc.cost_sub_pool = answer.cost_sub_pool

(***************************************************************************)
(* C15.  Confidence range: every row document handed to the writer has a   *)
(* confidence that is a number between 0.0 and 1.0, whatever the oracle    *)
(* returned in its confidence field.  (Numbers are in hundredths.)         *)
(***************************************************************************)
C15_ConfidenceInRange ==
    \A n \in 1..Len(bulkWriter) :
        /\ bulkWriter[n].doc.confidence.t = "num"
        /\ bulkWriter[n].doc.confidence.v >= 0
        /\ bulkWriter[n].doc.confidence.v <= 100

(***************************************************************************)
(* C16.  Job identity from the path: for a path of either accepted form,   *)
(* with or without the pipeline segment, the job record and the row        *)
(* results are written under (tenantId, jobId) where jobId is the segment  *)
(* just before the filename, and originalFilename is the last segment.     *)
(***************************************************************************)
SegmentBeforeFilename(pathParts) == pathParts[Len(pathParts) - 1]

LastSegment(pathParts) == pathParts[Len(pathParts)]

C16_JobIdBeforeFilename ==
    (argv \in UploadPaths /\ setReq = "landed") =>
        LET key == <<argv[2], SegmentBeforeFilename(argv)>>
        IN  /\ jobDocs[key].exists
            /\ jobDocs[key].id = SegmentBeforeFilename(argv)
            /\ jobDocs[key].originalFilename = LastSegment(argv)
            /\ \A n \in 1..Len(bulkWriter) :
                  /\ bulkWriter[n].ref.tenant = argv[2]
                  /\ bulkWriter[n].ref.job = SegmentBeforeFilename(argv)

(***************************************************************************)
(* C17.  Row result fields: every row document handed to the writer has    *)
(* the field manually_edited with value false, next to original_data,      *)
(* cost_pool, cost_sub_pool, confidence, reasoning and row_index.          *)
(***************************************************************************)
RowResultFields ==
    {"original_data", "cost_pool", "cost_sub_pool", "confidence", "reasoning", "row_index",
     "manually_edited"}

C17_ManuallyEditedFalse ==
    \A n \in 1..Len(bulkWriter) :
        /\ RowResultFields \subseteq DOMAIN bulkWriter[n].doc
        /\ bulkWriter[n].doc.manually_edited = "false"

(***************************************************************************)
(* C18.  Single fetch: within one process the definitions document is read *)
(* from the store at most once, however many calls of                      *)
(* getStructuredDefinitions are made and also when calls overlap; a call   *)
(* made after one has returned the taxonomy reads nothing.                 *)
(***************************************************************************)
C18_FetchedAtMostOnce == defsDoc.exists => fetches <= 1

(***************************************************************************)
(* C19.  Every run ends in a terminal status: when the process is not      *)
(* killed and every call is answered, a run started with a valid path      *)
(* leads to a job record with status completed, or failed with an error    *)
(* message: no error leaves the job in reading or processing_batch_N.      *)
(* A run that ends does so with pc "done" or "exited": the process is gone *)
(* and nothing but a new invocation changes the job record afterwards.     *)
(***************************************************************************)
TerminalStatus ==
    /\ ValidPath(argv)
    /\ \/ ThisJob.status = Status("completed", 0)
       \/ ThisJob.status = Status("failed", 0) /\ ThisJob.error # ""

C19_RunEndsCompletedOrFailed == (pc = "init") ~> TerminalStatus

(***************************************************************************)
(* C20.  Atomic edit with audit trail: a step of updateRowClassification   *)
(* that is authorized, complete, finds its row and commits answers 200 and *)
(* writes, for each of cost_pool and cost_sub_pool whose new value differs *)
(* from the stored one, exactly one audit record (changedBy, field,        *)
(* oldValue, newValue), updates exactly those fields and sets              *)
(* manually_edited to true, all in the same step.  When neither value      *)
(* differs, when the row does not exist, and in every request that is not  *)
(* answered 200, no row changes and no audit record is written.            *)
(***************************************************************************)
EditedFields == {"cost_pool", "cost_sub_pool"}

\* The audit records a step added.
AddedRecords == SubSeq(auditTrail', Len(auditTrail) + 1, Len(auditTrail'))

EditRecorded ==
    LET token == request'.token
        body == request'.body
        ref == EditRowRef(token, body)
        found == {d \in rowDocs : d.ref = ref}
        accepted == request'.status = 200
    IN  /\ Len(auditTrail') >= Len(auditTrail)
        /\ SubSeq(auditTrail', 1, Len(auditTrail)) = auditTrail
        /\ {d.ref : d \in rowDocs'} = {d.ref : d \in rowDocs}
        /\ \A d \in rowDocs : d.ref # ref => d \in rowDocs'
        /\ (AuthStatus(token) = 0 /\ ~MissingFields(body) /\ found # {} /\ request'.committed)
              <=> accepted
        /\ ~accepted => rowDocs' = rowDocs /\ AddedRecords = <<>>
        /\ accepted =>
              \A d \in found :
                 LET changed == {f \in EditedFields : d.doc[f] # NewValue(body, f)}
                     after == [f \in DOMAIN d.doc |->
                                  IF f \in changed THEN NewValue(body, f)
                                  ELSE IF f = "manually_edited" /\ changed # {} THEN "true"
                                  ELSE d.doc[f]]
                 IN  /\ [ref |-> ref, doc |-> after] \in rowDocs'
                     /\ \A f \in EditedFields :
                           Cardinality({n \in 1..Len(AddedRecords) : AddedRecords[n].field = f})
                              = IF f \in changed THEN 1 ELSE 0
                     /\ \A n \in 1..Len(AddedRecords) :
                           /\ AddedRecords[n].ref = ref
                           /\ AddedRecords[n].changedBy = token.email
                           /\ AddedRecords[n].field \in changed
                           /\ AddedRecords[n].oldValue = d.doc[AddedRecords[n].field]
                           /\ AddedRecords[n].newValue = NewValue(body, AddedRecords[n].field)

TenantIsolated ==
    /\ \A u \in Uids :
          users'[u] # users[u] =>
             /\ \E op \in manageOps \ manageOps' :
                   /\ op.body.uid = u
                   /\ op.token.role = "admin"
                   /\ op.token.tenantId = users[u].tenantId
             /\ users'[u].exists => users'[u].tenantId = users[u].tenantId
    /\ userReply' # userReply =>
          LET token == userReply'.token
              body == userReply'.body
              own == {u \in Uids : users[u].exists /\ users[u].tenantId = token.tenantId}
          IN  /\ userReply'.listed \subseteq own
              /\ (body.action = "listUsers" /\ userReply'.status = 200) => userReply'.listed = own
              /\ (/\ ManageAuthStatus(token) = 0
                  /\ body.action \in {"updateRole", "disableUser", "deleteUser"}
                  /\ ~InvalidArguments(body)
                  /\ users[body.uid].exists
                  /\ users[body.uid].tenantId # token.tenantId) =>
                    /\ userReply'.status = 403
                    /\ users' = users

C21_TenantIsolation == [][TenantIsolated]_vars

\* Ann, admin of acme, has changed bob's role, and her request to delete zed
\* of globex was answered 403 and left zed as he was.
C21_Witness ==
    /\ users["bob"].role = "viewer"
    /\ userReply.status = 403
    /\ userReply.token.tenantId = "acme"
    /\ userReply.body = ManageBody("deleteUser", "zed", "", "")
    /\ users["zed"] = InitialUsers["zed"]

(***************************************************************************)
(* C22.  Correlation: once the oracle has answered a batch with a JSON     *)
(* object, every row i of the batch has a document at key i, with row i's  *)
(* fields and row_index i, whose classification is decided by the entry    *)
(* under row i's own key alone: the entry's cost_pool and cost_sub_pool     *)
(* when the entry names a taxonomy key and one of its sub-pools, and the   *)
(* fallback otherwise.                                                     *)
(***************************************************************************)
C22_OwnEntryDecides ==
    \A n \in 1..Len(oracleLog) : \A m \in 1..Len(batchLog[n]) :
        LET i == batchLog[n][m].index
            answer == ResultFor(oracleLog[n], i)
        IN  oracleLog[n].kind = "object" =>
            /\ WritesOf(i) # {}
            /\ \A w \in WritesOf(i) :
                  /\ bulkWriter[w].ref.id = RowDocId(i)
                  /\ bulkWriter[w].doc.original_data = RowData(i)
                  /\ IF ValidAnswer(answer, definitionsCache.data)
                     THEN /\ bulkWriter[w].doc.cost_pool = answer.cost_pool
                          /\ bulkWriter[w].doc.cost_sub_pool = answer.cost_sub_pool
                     ELSE IsFallback(bulkWriter[w].doc)

(***************************************************************************)
(* C23.  Confidence and reasoning defaults: for an accepted answer the     *)
(* stored confidence is the oracle's confidence when that is a number, and *)
(* 0.0 when it is absent, null, a boolean, an object or a string that is   *)
(* not numeric; the stored reasoning is 'No reasoning provided.' when the  *)
(* oracle gave none.                                                       *)
(***************************************************************************)
NonNumeric(x) ==
    \/ x.t \in {"undef", "null", "bool", "obj"}
    \/ x.t = "str" /\ x.v \notin DOMAIN NumericStrings

C23_ConfidenceDefaults ==
    \A n \in 1..Len(oracleLog) : \A m \in 1..Len(batchLog[n]) :
        LET i == batchLog[n][m].index
            answer == ResultFor(oracleLog[n], i)
        IN  (oracleLog[n].kind = "object" /\ ValidAnswer(answer, definitionsCache.data)) =>
               \A w \in WritesOf(i) :
                  /\ answer.confidence.t \in {"num", "inf"} =>
                        bulkWriter[w].doc.confidence = answer.confidence
                  /\ NonNumeric(answer.confidence) => bulkWriter[w].doc.confidence = Num(0)
                  /\ answer.reasoning = Undef =>
                        bulkWriter[w].doc.reasoning = Str("No reasoning provided.")

(***************************************************************************)
(* C24.  Sequential batches: at every moment at most one oracle call is    *)
(* in flight, and when the request of a batch has been built every row of  *)
(* every earlier batch has been validated and handed to the writer.        *)
(***************************************************************************)
CallsInFlight == Len(batchLog) - Len(oracleLog)

C24_OneBatchAtATime ==
    /\ CallsInFlight \in {0, 1}
    /\ pc \in {"classifying", "classifyingLast"} => CallsInFlight = 1
    /\ (CallsInFlight = 1 /\ pc # "exited") => pc \in {"classifying", "classifyingLast"}
    /\ \A n \in 2..Len(batchLog) : \A m \in 1..Len(batchLog[n - 1]) :
          WritesOf(batchLog[n - 1][m].index) # {}

\* The second batch's call is in flight and the rows of the first are with
\* the writer.
C24_Witness ==
    /\ Len(batchLog) = 2
    /\ CallsInFlight = 1
    /\ \A m \in 1..Len(batchLog[1]) : WritesOf(batchLog[1][m].index) # {}
    /\ Len(batchLog[1]) = BATCH_SIZE

(***************************************************************************)
(* C25.  One call per batch: a run never calls the oracle twice for the    *)
(* same rows, whether a call succeeds or fails; the calls made never       *)
(* exceed ceil(K/B) for a source of K rows and batch size B, and a run     *)
(* that has got through its source has made exactly that many, each        *)
(* answered once.                                                          *)
(***************************************************************************)
RowsCalled(n) == {batchLog[n][m].index : m \in 1..Len(batchLog[n])}

C25_OneCallPerBatch ==
    /\ Len(batchLog) <= CeilDiv(source, BATCH_SIZE)
    /\ Len(oracleLog) <= Len(batchLog)
    /\ \A n, k \in 1..Len(batchLog) : n # k => RowsCalled(n) \cap RowsCalled(k) = {}
    /\ pc \in {"closing", "completing", "done"} =>
          /\ Len(batchLog) = CeilDiv(source, BATCH_SIZE)
          /\ Len(oracleLog) = Len(batchLog)

\* A run of two batches whose first call failed has ended, with two calls.
C25_Witness ==
    /\ pc = "done"
    /\ source > BATCH_SIZE
    /\ Len(oracleLog) = 2
    /\ oracleLog[1].kind = "error"
    /\ Len(batchLog) = 2

(***************************************************************************)
(* C26.  Bounded batch buffer: at every point of a run the batch buffer    *)
(* holds at most BATCH_SIZE rows, however many rows the source has, and    *)
(* fewer while the loop waits for the next row: a full buffer is processed *)
(* before another row is read.                                             *)
(***************************************************************************)
C26_BatchBufferBounded ==
    /\ Len(batch) <= BATCH_SIZE
    /\ pc = "streaming" => Len(batch) < BATCH_SIZE
    /\ pc \in {"updating", "classifying"} => Len(batch) = BATCH_SIZE

\* The first batch is being classified while rows of the source are unread.
C26_Witness ==
    /\ pc = "classifying"
    /\ Len(batch) = BATCH_SIZE
    /\ source > BATCH_SIZE
    /\ rowIndex < source

(***************************************************************************)
(* C27.  In the per-row function the oracle calls in flight are not        *)
(* bounded: records.map starts the call of every row before any of them    *)
(* returns.  Once the callbacks exist there is one per row of the source,  *)
(* and every row's call is outstanding or has been answered; so before the *)
(* first answer K calls are outstanding for a source of K rows.            *)
(***************************************************************************)
OutstandingCalls == Cardinality({n \in 1..Len(tasks) : tasks[n].st = "calling"})

AnsweredCalls == Cardinality({n \in 1..Len(tasks) : tasks[n].answer # NoAnswer})

C27_AllCallsStartedAtOnce ==
    (fnPc \in {"classifying", "completing"} \/ tasks # <<>>)
        => /\ Len(tasks) = source
           /\ OutstandingCalls + AnsweredCalls = source

\* A source of MaxRows rows with MaxRows calls outstanding and none answered.
C27_Witness ==
    /\ fnPc = "classifying"
    /\ source = MaxRows
    /\ OutstandingCalls = source
    /\ AnsweredCalls = 0

(***************************************************************************)
(* C28.  The per-row and the batched variant store the same confidence:    *)
(* for every suggestion both accept under the same taxonomy, the           *)
(* confidence of the document the per-row function writes equals the       *)
(* confidence of the document the batched job builds for that row.         *)
(***************************************************************************)
BatchedAccepted(result, defs) ==
    ~ClassifyThrows(result, defs) /\ Classify(result, defs) # FallbackClassification

AcceptedByBoth(answer, defs) ==
    SuggestionAccepted(answer, defs) /\ BatchedAccepted(answer.suggestion, defs)

BatchedConfidence(answer, index, defs) ==
    RowDocument(Row(index), Classify(answer.suggestion, defs)).confidence

C28_SameConfidence ==
    \A n \in 1..Len(tasks) :
        (tasks[n].doc # NoDocument /\ AcceptedByBoth(tasks[n].answer, definitionsCache.data))
            => tasks[n].doc.confidence
                   = BatchedConfidence(tasks[n].answer, n - 1, definitionsCache.data)

\* An accepted suggestion without a confidence was written with confidence 0.
C28_Witness ==
    \E n \in 1..Len(tasks) :
        /\ tasks[n].st = "written"
        /\ AcceptedByBoth(tasks[n].answer, definitionsCache.data)
        /\ tasks[n].answer.suggestion.confidence = Undef
        /\ [ref |-> RowRef(fnPath, n - 1), doc |-> tasks[n].doc] \in rowDocs
        /\ tasks[n].doc.confidence = Num(0)

\* The claim as the spec states it: some suggestion both variants accept is
\* stored with different confidences.
C28_ConfidenceDiffers ==
    \E answer \in SuggestionAnswers :
        /\ AcceptedByBoth(answer, definitionsCache.data)
        /\ PerRowDocument(RowData(0), 0, ClassifySuggestion(answer, definitionsCache.data)).confidence
               # BatchedConfidence(answer, 0, definitionsCache.data)

(***************************************************************************)
(* C29.  Per-row function: a run that has written status 'reading'         *)
(* eventually sets the job's status to 'completed' or to 'failed'.         *)
(* A behaviour that ends with fnPc = "caught" is a handler that has logged *)
(* the error in its catch and returned: the code has nothing left to run.  *)
(***************************************************************************)
EventJobStatus ==
    IF ValidEventPath(fnPath) THEN jobDocs[JobKey(fnPath)].status.s ELSE "none"

C29_PerRowReachesTerminal ==
    (EventJobStatus = "reading") ~> (EventJobStatus \in {"completed", "failed"})

(***************************************************************************)
(* C30.  After an accepted manual edit the row's (cost_pool,               *)
(* cost_sub_pool) is 'Unclassified'/'Unclassified' or a pool of the        *)
(* taxonomy with one of its sub-pools.                                     *)
(***************************************************************************)
C30_EditKeepsTaxonomy ==
    \A d \in rowDocs : d.doc.manually_edited = "true" => InTaxonomy(d.doc, defsDoc.data)

(***************************************************************************)
(* C32.  A run whose source path main rejects (fewer than 4 segments, or   *)
(* a first segment other than 'uploads') writes to no job record: no step  *)
(* of such a run changes the job records.                                  *)
(***************************************************************************)
RejectedPath(pathParts) == pathParts # <<>> /\ ~ValidPath(pathParts)

RejectedRunWritesNoJob == RejectedPath(argv') => jobDocs' = jobDocs

C32_RejectedPathWritesNoJob == [][RejectedRunWritesNoJob]_vars

(***************************************************************************)
(* C31.  A pipeline run never undoes a manual edit: a row with audit       *)
(* records has manually_edited = true, and each of its fields holds the    *)
(* newValue of the latest audit record of that field.                      *)
(***************************************************************************)
LatestAudit(n) ==
    \A k \in (n + 1)..Len(auditTrail) :
        ~(auditTrail[k].ref = auditTrail[n].ref /\ auditTrail[k].field = auditTrail[n].field)

C31_EditSurvivesRerun ==
    \A n \in 1..Len(auditTrail) :
        \E d \in rowDocs :
            /\ d.ref = auditTrail[n].ref
            /\ d.doc.manually_edited = "true"
            /\ LatestAudit(n) => d.doc[auditTrail[n].field] = auditTrail[n].newValue

====
